---- MODULE Spec2Model ----
(***************************************************************************)
(* GDPR obfuscator: the three format transforms (obfuscate_csv,            *)
(* obfuscate_json, obfuscate_parquet), the S3 location resolution and the  *)
(* dispatch of obfuscate_file, and the CSV-only obfuscate_csv_from_json.   *)
(*                                                                         *)
(* A Python str is a sequence of one-character strings, so that the        *)
(* parsers and serialisers are computed character by character.            *)
(***************************************************************************)
EXTENDS Integers, Sequences, FiniteSets, TLC

VARIABLES pc, fn, s3_url, pii_fields, bucket, key, data, fetches, invoked,
          result, pass, prev

vars == <<pc, fn, s3_url, pii_fields, bucket, key, data, fetches, invoked,
          result, pass, prev>>

(***************************************************************************)
(* Bounds of the model.                                                    *)
(***************************************************************************)
\* longest CSV content drawn, in characters
MaxLen == 5
\* most records in a JSON document drawn, and most rows of a table drawn
MaxRecords == 2

(***************************************************************************)
(* Strings.                                                                *)
(***************************************************************************)
\* the redaction marker "***"
Marker == <<"*", "*", "*">>

\* Python None where a str is expected (DictReader's restval)
NoneVal == <<"None">>

\* all strings over alphabet A of length at most n
RECURSIVE StringsUpTo(_, _)
StringsUpTo(A, n) ==
  IF n = 0 THEN {<<>>}
  ELSE LET shorter == StringsUpTo(A, n - 1)
       IN  shorter \cup {Append(s, c) : s \in {t \in shorter : Len(t) = n - 1}, c \in A}

\* s.startswith(p)
startswith(s, p) == Len(s) >= Len(p) /\ SubSeq(s, 1, Len(p)) = p

\* s.endswith(p)
endswith(s, p) == Len(s) >= Len(p) /\ SubSeq(s, Len(s) - Len(p) + 1, Len(s)) = p

\* s[n:]
slice_from(s, n) == SubSeq(s, n + 1, Len(s))

\* s.split(sep, 1) for a one-character sep: one part, or two parts cut at the
\* first occurrence of sep
split_once(s, sep) ==
  LET hits == {i \in 1..Len(s) : s[i] = sep}
  IN  IF hits = {} THEN <<s>>
      ELSE LET i == CHOOSE j \in hits : \A k \in hits : j <= k
           IN  <<SubSeq(s, 1, i - 1), SubSeq(s, i + 1, Len(s))>>

\* sub in s, for two str
is_substring(sub, s) ==
  \E i \in 1..(Len(s) + 1) :
    i + Len(sub) - 1 <= Len(s) /\ SubSeq(s, i, i + Len(sub) - 1) = sub

\* x in list
in_list(x, list) == \E i \in 1..Len(list) : list[i] = x

(***************************************************************************)
(* csv.reader (the default "excel" dialect: delimiter ',', quotechar '"',  *)
(* doublequote, no escapechar, not strict).  io.StringIO yields the lines  *)
(* of the content, each ending after a "\n"; the reader runs every         *)
(* character of a line and then an end-of-line through its state machine,  *)
(* and a line that ends in START_RECORD completes a row.                   *)
(***************************************************************************)
EOL == "EOL"

ReaderInit == [st |-> "START_RECORD", field |-> <<>>, fields |-> <<>>,
               rows |-> <<>>, err |-> FALSE]

save_field(S) == [S EXCEPT !.fields = Append(S.fields, S.field), !.field = <<>>]

is_newline(c) == c = "\n" \/ c = "\r"

after_newline(c) == IF c = EOL THEN "START_RECORD" ELSE "EAT_CRNL"

start_field(S, c) ==
  IF is_newline(c) \/ c = EOL
    THEN [save_field(S) EXCEPT !.st = after_newline(c)]
  ELSE IF c = "\"" THEN [S EXCEPT !.st = "IN_QUOTED_FIELD"]
  ELSE IF c = "," THEN [save_field(S) EXCEPT !.st = "START_FIELD"]
  ELSE [S EXCEPT !.field = Append(S.field, c), !.st = "IN_FIELD"]

process_char(S, c) ==
  CASE S.st = "START_RECORD" ->
         IF c = EOL THEN S
         ELSE IF is_newline(c) THEN [S EXCEPT !.st = "EAT_CRNL"]
         ELSE start_field(S, c)
    [] S.st = "START_FIELD" -> start_field(S, c)
    [] S.st = "IN_FIELD" ->
         IF is_newline(c) \/ c = EOL
           THEN [save_field(S) EXCEPT !.st = after_newline(c)]
         ELSE IF c = "," THEN [save_field(S) EXCEPT !.st = "START_FIELD"]
         ELSE [S EXCEPT !.field = Append(S.field, c)]
    [] S.st = "IN_QUOTED_FIELD" ->
         IF c = EOL THEN S
         ELSE IF c = "\"" THEN [S EXCEPT !.st = "QUOTE_IN_QUOTED_FIELD"]
         ELSE [S EXCEPT !.field = Append(S.field, c)]
    [] S.st = "QUOTE_IN_QUOTED_FIELD" ->
         IF c = "\"" THEN [S EXCEPT !.field = Append(S.field, c),
                                     !.st = "IN_QUOTED_FIELD"]
         ELSE IF c = "," THEN [save_field(S) EXCEPT !.st = "START_FIELD"]
         ELSE IF is_newline(c) \/ c = EOL
           THEN [save_field(S) EXCEPT !.st = after_newline(c)]
         ELSE [S EXCEPT !.field = Append(S.field, c), !.st = "IN_FIELD"]
    [] S.st = "EAT_CRNL" ->
         IF is_newline(c) THEN S
         ELSE IF c = EOL THEN [S EXCEPT !.st = "START_RECORD"]
         ELSE [S EXCEPT !.err = TRUE]

\* the end of a line: the end-of-line goes through the state machine, and
\* the row is returned if the record is complete
end_line(S) ==
  LET T == process_char(S, EOL)
  IN  IF ~T.err /\ T.st = "START_RECORD"
        THEN [T EXCEPT !.rows = Append(T.rows, T.fields), !.fields = <<>>]
        ELSE T

\* the input is exhausted inside a record: a pending field is saved and the
\* row returned
end_input(S) ==
  IF S.err \/ S.st = "START_RECORD" THEN S
  ELSE IF Len(S.field) # 0 \/ S.st = "IN_QUOTED_FIELD"
    THEN LET T == save_field(S)
         IN  [T EXCEPT !.rows = Append(T.rows, T.fields), !.fields = <<>>,
                       !.st = "START_RECORD"]
  ELSE S

RECURSIVE reader_run(_, _, _)
reader_run(text, i, S) ==
  IF S.err THEN S
  ELSE IF i > Len(text) THEN end_input(S)
  ELSE LET T == process_char(S, text[i])
       IN  IF T.err THEN T
           ELSE IF text[i] = "\n" \/ i = Len(text)
             THEN reader_run(text, i + 1, end_line(T))
           ELSE reader_run(text, i + 1, T)

\* list(csv.reader(io.StringIO(text))): the rows read, and whether the
\* reader raised csv.Error after them
csv_reader(text) ==
  LET S == reader_run(text, 1, ReaderInit)
  IN  [rows |-> S.rows, err |-> S.err]

(***************************************************************************)
(* csv.DictReader and csv.DictWriter as obfuscate_csv uses them.           *)
(***************************************************************************)
\* DictReader.__next__: dict(zip(fieldnames, row)), then restval None for
\* the fieldnames a short row leaves out; a later key overwrites an earlier
\* equal one.  The dict is a function on the set of field names.
row_dict(fieldnames, row) ==
  LET at(i) == IF i <= Len(row) THEN row[i] ELSE NoneVal
      last(n) == CHOOSE i \in 1..Len(fieldnames) :
                   /\ fieldnames[i] = n
                   /\ \A j \in 1..Len(fieldnames) : fieldnames[j] = n => j <= i
  IN  [n \in {fieldnames[i] : i \in 1..Len(fieldnames)} |-> at(last(n))]

\* a row longer than the header: DictReader keeps the rest under the key None
has_restkey(fieldnames, row) == Len(row) > Len(fieldnames)

\* mutant: an empty value is left as it is (`if row.get(field)`)
redact_row_nonempty(d, fields) ==
  [n \in DOMAIN d |-> IF in_list(n, fields) /\ d[n] # <<>> THEN Marker ELSE d[n]]

\* for field in pii_fields: if field in row: row[field] = "***"
redact_row(d, fields) ==
  [n \in DOMAIN d |-> IF in_list(n, fields) THEN Marker ELSE d[n]]

\* DictWriter._dict_to_list: rowdict.get(key, "") for key in fieldnames
dict_to_list(fieldnames, d) ==
  [i \in 1..Len(fieldnames) |-> d[fieldnames[i]]]

\* the writer's text of one field under QUOTE_MINIMAL: None is written as
\* the empty string; a field holding the delimiter, the quote character or a
\* character of the line terminator is quoted, its quotes doubled
needs_quotes(f) ==
  \E i \in 1..Len(f) : f[i] = "," \/ f[i] = "\"" \/ f[i] = "\r" \/ f[i] = "\n"

RECURSIVE double_quotes(_)
double_quotes(f) ==
  IF f = <<>> THEN <<>>
  ELSE (IF Head(f) = "\"" THEN <<"\"", "\"">> ELSE <<Head(f)>>)
         \o double_quotes(Tail(f))

\* mutant: no field is ever quoted
write_field_unquoted(f) == IF f = NoneVal THEN <<>> ELSE f

write_field(f) ==
  IF f = NoneVal THEN <<>>
  ELSE IF needs_quotes(f) THEN <<"\"">> \o double_quotes(f) \o <<"\"">>
  ELSE f

RECURSIVE join_fields(_)
join_fields(row) ==
  IF row = <<>> THEN <<>>
  ELSE IF Len(row) = 1 THEN write_field(row[1])
  ELSE write_field(row[1]) \o <<",">> \o join_fields(Tail(row))

\* mutant: a single empty field is written as a blank line
writerow_plain(row) == join_fields(row) \o <<"\r", "\n">>

\* writer.writerow: the joined fields and the line terminator "\r\n"; a
\* single empty field is written as "" so that the line is not blank
writerow(row) ==
  LET line == join_fields(row)
  IN  (IF Len(row) > 0 /\ line = <<>> THEN <<"\"", "\"">> ELSE line)
        \o <<"\r", "\n">>

(***************************************************************************)
(* Outcomes of a call: bytes returned, or an exception raised.             *)
(***************************************************************************)
NoTable == [valid |-> FALSE, cols |-> <<>>]

Returned(text) == [status |-> "ok", exc |-> "", msg |-> "", text |-> text,
                   table |-> NoTable]

Raised(exc, msg) == [status |-> "error", exc |-> exc, msg |-> msg,
                     text |-> <<>>, table |-> NoTable]

NoHeaderMsg == "CSV file has no header row."

(***************************************************************************)
(* obfuscate_csv                                                           *)
(***************************************************************************)
\* the loop over the data rows: blank rows are skipped by DictReader, a row
\* with a None key makes DictWriter raise, csv.Error is raised where the
\* reader met it
RECURSIVE csv_rows(_, _, _, _, _)
csv_rows(fieldnames, parsed, fields, i, out) ==
  IF i > Len(parsed.rows)
    THEN IF parsed.err THEN Raised("csv.Error", "new-line character seen in unquoted field")
         ELSE Returned(out)
  ELSE LET row == parsed.rows[i]
       IN  IF row = <<>> THEN csv_rows(fieldnames, parsed, fields, i + 1, out)
           ELSE IF has_restkey(fieldnames, row)
             THEN Raised("ValueError", "dict contains fields not in fieldnames")
           ELSE csv_rows(fieldnames, parsed, fields, i + 1,
                         out \o writerow(dict_to_list(fieldnames,
                                  redact_row(row_dict(fieldnames, row), fields))))

\* mutant: an empty header row is taken for a missing one (`if not fieldnames`)
obfuscate_csv_falsy_header(text, fields) ==
  LET parsed == csv_reader(text)
  IN  IF parsed.rows = <<>> \/ parsed.rows[1] = <<>>
        THEN IF parsed.err
               THEN Raised("csv.Error", "new-line character seen in unquoted field")
               ELSE Raised("ValueError", NoHeaderMsg)
      ELSE LET fieldnames == parsed.rows[1]
           IN  csv_rows(fieldnames, parsed, fields, 2, writerow(fieldnames))

obfuscate_csv(text, fields) ==
  LET parsed == csv_reader(text)
  IN  IF parsed.rows = <<>>
        THEN IF parsed.err
               THEN Raised("csv.Error", "new-line character seen in unquoted field")
               ELSE Raised("ValueError", NoHeaderMsg)
      ELSE LET fieldnames == parsed.rows[1]
           IN  csv_rows(fieldnames, parsed, fields, 2, writerow(fieldnames))

(***************************************************************************)
(* JSON values as Python objects.  One record shape for every value: t is  *)
(* the type, s the text of a str or of a number, items the elements of a   *)
(* list or the values of a dict, keys the keys of a dict in insertion      *)
(* order.                                                                   *)
(***************************************************************************)
JNull == [t |-> "NoneType", s |-> <<>>, keys |-> <<>>, items |-> <<>>]
JBool(b) == [t |-> "bool", s |-> IF b THEN <<"t">> ELSE <<"f">>, keys |-> <<>>, items |-> <<>>]
JNum(digits) == [t |-> "int", s |-> digits, keys |-> <<>>, items |-> <<>>]
JStr(chars) == [t |-> "str", s |-> chars, keys |-> <<>>, items |-> <<>>]
JList(items) == [t |-> "list", s |-> <<>>, keys |-> <<>>, items |-> items]
JDict(keys, items) == [t |-> "dict", s |-> <<>>, keys |-> keys, items |-> items]

\* d[k] = v on a dict: an existing key keeps its place, a new key goes last
dict_set(d, k, v) ==
  IF in_list(k, d.keys)
    THEN [d EXCEPT !.items = [i \in 1..Len(d.items) |->
                                 IF d.keys[i] = k THEN v ELSE d.items[i]]]
    ELSE [d EXCEPT !.keys = Append(d.keys, k), !.items = Append(d.items, v)]

(***************************************************************************)
(* json.loads, on the texts drawn: whitespace, strings without escapes,    *)
(* unsigned integers, null, true, false, arrays and objects.               *)
(***************************************************************************)
JsonWhitespace == {" ", "\n", "\r", "\t"}
Digits == {"0", "1", "2", "3", "4", "5", "6", "7", "8", "9"}

ParseFail == [ok |-> FALSE, v |-> JNull, pos |-> 0]
Parsed(v, pos) == [ok |-> TRUE, v |-> v, pos |-> pos]

RECURSIVE skip_ws(_, _)
skip_ws(text, i) ==
  IF i <= Len(text) /\ text[i] \in JsonWhitespace THEN skip_ws(text, i + 1) ELSE i

char_at(text, i) == IF i >= 1 /\ i <= Len(text) THEN text[i] ELSE "EOF"

\* the index of the quote that closes a string whose content starts at i
RECURSIVE closing_quote(_, _)
closing_quote(text, i) ==
  IF i > Len(text) THEN 0
  ELSE IF text[i] = "\"" THEN i
  ELSE closing_quote(text, i + 1)

\* py_scanstring, strict: a control character inside a string is an error
ControlChars == {"\n", "\r", "\t"}

parse_string(text, i) ==
  LET j == closing_quote(text, i + 1)
  IN  IF char_at(text, i) # "\"" \/ j = 0 THEN ParseFail
      ELSE IF \E m \in (i + 1)..(j - 1) : text[m] \in ControlChars THEN ParseFail
      ELSE Parsed(JStr(SubSeq(text, i + 1, j - 1)), j + 1)

\* the end of the digits of an integer that starts at i: 0, or a nonzero
\* digit and the digits after it
RECURSIVE digits_end(_, _)
digits_end(text, i) ==
  IF char_at(text, i) \in Digits THEN digits_end(text, i + 1) ELSE i

parse_number(text, i) ==
  LET j == IF text[i] = "0" THEN i + 1 ELSE digits_end(text, i)
  IN  Parsed(JNum(SubSeq(text, i, j - 1)), j)

parse_literal(text, i, word, v) ==
  IF i + Len(word) - 1 <= Len(text) /\ SubSeq(text, i, i + Len(word) - 1) = word
    THEN Parsed(v, i + Len(word))
    ELSE ParseFail

RECURSIVE parse_value(_, _)
RECURSIVE parse_elements(_, _, _)
RECURSIVE parse_members(_, _, _)

\* scanner.scan_once at index i (the caller has skipped the whitespace)
parse_value(text, i) ==
  LET c == char_at(text, i)
  IN  CASE c = "\"" -> parse_string(text, i)
        [] c = "{" ->
             LET j == skip_ws(text, i + 1)
             IN  IF char_at(text, j) = "}" THEN Parsed(JDict(<<>>, <<>>), j + 1)
                 ELSE parse_members(text, j, JDict(<<>>, <<>>))
        [] c = "[" ->
             LET j == skip_ws(text, i + 1)
             IN  IF char_at(text, j) = "]" THEN Parsed(JList(<<>>), j + 1)
                 ELSE parse_elements(text, j, <<>>)
        [] c = "n" -> parse_literal(text, i, <<"n", "u", "l", "l">>, JNull)
        [] c = "t" -> parse_literal(text, i, <<"t", "r", "u", "e">>, JBool(TRUE))
        [] c = "f" -> parse_literal(text, i, <<"f", "a", "l", "s", "e">>, JBool(FALSE))
        [] c \in Digits -> parse_number(text, i)
        [] OTHER -> ParseFail

\* JSONArray: a value, then "," and the next value, or "]"
parse_elements(text, i, acc) ==
  LET e == parse_value(text, i)
  IN  IF ~e.ok THEN ParseFail
      ELSE LET j == skip_ws(text, e.pos)
               c == char_at(text, j)
           IN  IF c = "]" THEN Parsed(JList(Append(acc, e.v)), j + 1)
               ELSE IF c = ","
                 THEN parse_elements(text, skip_ws(text, j + 1), Append(acc, e.v))
               ELSE ParseFail

\* JSONObject: a string key, ":", a value, then "," and the next key, or "}";
\* the pairs make a dict, so a repeated key keeps its last value
parse_members(text, i, acc) ==
  LET k == parse_string(text, i)
  IN  IF ~k.ok THEN ParseFail
      ELSE LET j == skip_ws(text, k.pos)
           IN  IF char_at(text, j) # ":" THEN ParseFail
               ELSE LET e == parse_value(text, skip_ws(text, j + 1))
                    IN  IF ~e.ok THEN ParseFail
                        ELSE LET m == skip_ws(text, e.pos)
                                 c == char_at(text, m)
                                 d == dict_set(acc, k.v.s, e.v)
                             IN  IF c = "}" THEN Parsed(d, m + 1)
                                 ELSE IF c = ","
                                   THEN parse_members(text, skip_ws(text, m + 1), d)
                                 ELSE ParseFail

\* json.loads(text): one value between optional whitespace, nothing after it
json_loads(text) ==
  LET r == parse_value(text, skip_ws(text, 1))
  IN  IF r.ok /\ skip_ws(text, r.pos) = Len(text) + 1 THEN r ELSE ParseFail

(***************************************************************************)
(* json.dumps(obj, separators=(item_separator, key_separator)); the       *)
(* default separators are ", " and ": ".                                   *)
(***************************************************************************)
RECURSIVE json_dumps_sep(_, _, _)
RECURSIVE dumps_items(_, _, _, _)
RECURSIVE dumps_members(_, _, _, _, _)

json_dumps_sep(v, item_separator, key_separator) ==
  CASE v.t = "NoneType" -> <<"n", "u", "l", "l">>
    [] v.t = "bool" -> IF v.s = <<"t">> THEN <<"t", "r", "u", "e">>
                       ELSE <<"f", "a", "l", "s", "e">>
    [] v.t = "int" -> v.s
    [] v.t = "str" -> <<"\"">> \o v.s \o <<"\"">>
    [] v.t = "list" ->
         <<"[">> \o dumps_items(v.items, 1, item_separator, key_separator) \o <<"]">>
    [] v.t = "dict" ->
         <<"{">> \o dumps_members(v.keys, v.items, 1, item_separator, key_separator)
                 \o <<"}">>

dumps_items(items, i, item_separator, key_separator) ==
  IF i > Len(items) THEN <<>>
  ELSE (IF i > 1 THEN item_separator ELSE <<>>)
         \o json_dumps_sep(items[i], item_separator, key_separator)
         \o dumps_items(items, i + 1, item_separator, key_separator)

dumps_members(keys, items, i, item_separator, key_separator) ==
  IF i > Len(keys) THEN <<>>
  ELSE (IF i > 1 THEN item_separator ELSE <<>>)
         \o <<"\"">> \o keys[i] \o <<"\"">> \o key_separator
         \o json_dumps_sep(items[i], item_separator, key_separator)
         \o dumps_members(keys, items, i + 1, item_separator, key_separator)

json_dumps(v) == json_dumps_sep(v, <<",", " ">>, <<":", " ">>)

(***************************************************************************)
(* obfuscate_json                                                          *)
(***************************************************************************)
\* iter(data_list): the elements of a list, the keys of a dict, the
\* characters of a str; anything else is not iterable
is_iterable(v) == v.t \in {"list", "dict", "str"}

iter_rows(v) ==
  CASE v.t = "list" -> v.items
    [] v.t = "dict" -> [i \in 1..Len(v.keys) |-> JStr(v.keys[i])]
    [] v.t = "str" -> [i \in 1..Len(v.s) |-> JStr(<<v.s[i]>>)]
    [] OTHER -> <<>>

\* `field in row` raises TypeError for a row that is no container
contains_raises(row) == row.t \in {"int", "NoneType", "bool"}

\* mutant: the membership test is true of every dict, so that the marker is
\* written under a key the record does not have
contains_any_dict(row, field) ==
  CASE row.t = "dict" -> TRUE
    [] row.t = "str" -> is_substring(field, row.s)
    [] row.t = "list" -> in_list(JStr(field), row.items)
    [] OTHER -> FALSE

\* field in row: a key of a dict, a substring of a str, an element of a list
contains(row, field) ==
  CASE row.t = "dict" -> in_list(field, row.keys)
    [] row.t = "str" -> is_substring(field, row.s)
    [] row.t = "list" -> in_list(JStr(field), row.items)
    [] OTHER -> FALSE

\* the inner loop on one row: the row after it, or raised
RECURSIVE redact_record(_, _, _)
redact_record(row, fields, i) ==
  IF i > Len(fields) THEN [raised |-> FALSE, row |-> row]
  ELSE IF contains_raises(row) THEN [raised |-> TRUE, row |-> row]
  ELSE IF contains(row, fields[i])
    THEN IF row.t = "dict"
           THEN redact_record(dict_set(row, fields[i], JStr(Marker)), fields, i + 1)
           ELSE [raised |-> TRUE, row |-> row]
  ELSE redact_record(row, fields, i + 1)

RECURSIVE redact_records(_, _, _, _)
redact_records(rows, fields, i, acc) ==
  IF i > Len(rows) THEN [raised |-> FALSE, rows |-> acc]
  ELSE LET r == redact_record(rows[i], fields, 1)
       IN  IF r.raised THEN [raised |-> TRUE, rows |-> acc]
           ELSE redact_records(rows, fields, i + 1, Append(acc, r.row))

obfuscate_json(text, fields) ==
  LET p == json_loads(text)
  IN  IF ~p.ok THEN Raised("JSONDecodeError", "Expecting value")
      ELSE IF ~is_iterable(p.v) THEN Raised("TypeError", "object is not iterable")
      ELSE LET r == redact_records(iter_rows(p.v), fields, 1, <<>>)
           IN  IF r.raised THEN Raised("TypeError", "item assignment or membership test")
               ELSE IF p.v.t = "list" THEN Returned(json_dumps(JList(r.rows)))
               ELSE Returned(json_dumps(p.v))

(***************************************************************************)
(* Parquet files and pandas DataFrames.  A file is a table: its columns in *)
(* order, each with a name, an Arrow type and one value per row ("null"    *)
(* for a null), and a flag for the columns the file's pandas metadata      *)
(* names as the index.  Column names are distinct.                         *)
(***************************************************************************)
Table(cols) == [valid |-> TRUE, cols |-> cols]

ReturnedTable(t) == [status |-> "ok", exc |-> "", msg |-> "", text |-> <<>>,
                     table |-> t]

\* Table.to_pandas for one column: an integer column with nulls becomes
\* float64 with NaN, a double column float64, every other column keeps its
\* values (object dtype for strings and for all-null columns)
to_pandas_column(c) ==
  LET has_null == \E i \in 1..Len(c.vals) : c.vals[i] = "null"
      as_float(v) == IF v = "null" THEN "nan" ELSE v \o ".0"
      nan(v) == IF v = "null" THEN "nan" ELSE v
      none(v) == IF v = "null" THEN "None" ELSE v
  IN  CASE c.type = "int64" /\ has_null ->
             [name |-> c.name, dtype |-> "float64",
              vals |-> [i \in 1..Len(c.vals) |-> as_float(c.vals[i])]]
        [] c.type = "int64" /\ ~has_null ->
             [name |-> c.name, dtype |-> "int64", vals |-> c.vals]
        [] c.type = "double" ->
             [name |-> c.name, dtype |-> "float64",
              vals |-> [i \in 1..Len(c.vals) |-> nan(c.vals[i])]]
        [] OTHER ->
             [name |-> c.name, dtype |-> "object",
              vals |-> [i \in 1..Len(c.vals) |-> none(c.vals[i])]]

\* pd.read_parquet: the columns the pandas metadata names as the index
\* become df.index, the others df.columns
read_parquet(t) ==
  LET keep == SelectSeq(t.cols, LAMBDA c : ~c.index)
      idx == SelectSeq(t.cols, LAMBDA c : c.index)
  IN  [columns |-> [i \in 1..Len(keep) |-> to_pandas_column(keep[i])],
       index |-> [i \in 1..Len(idx) |-> to_pandas_column(idx[i])]]

\* field in df.columns
in_columns(df, field) == \E i \in 1..Len(df.columns) : df.columns[i].name = field

\* df[field] = "***": every row of the column, which keeps its place
set_column(df, field) ==
  [df EXCEPT !.columns = [i \in 1..Len(df.columns) |->
     IF df.columns[i].name = field
       THEN [name |-> field, dtype |-> "object",
             vals |-> [r \in 1..Len(df.columns[i].vals) |-> "***"]]
       ELSE df.columns[i]]]

\* pa.Table.from_pandas for one column: NaN and None are nulls; the type of
\* an object column is inferred from its values, and is null when it has
\* none
from_pandas_column(c) ==
  LET null(v) == IF v = "nan" \/ v = "None" THEN "null" ELSE v
      vals == [i \in 1..Len(c.vals) |-> null(c.vals[i])]
      all_null == \A i \in 1..Len(vals) : vals[i] = "null"
  IN  [name |-> c.name,
       type |-> CASE c.dtype = "int64" -> "int64"
                  [] c.dtype = "float64" -> "double"
                  [] OTHER -> IF all_null THEN "null" ELSE "string",
       vals |-> vals,
       index |-> FALSE]

\* df.to_parquet(out_buffer, index=False): the index is not written
to_parquet(df) ==
  Table([i \in 1..Len(df.columns) |-> from_pandas_column(df.columns[i])])

(***************************************************************************)
(* obfuscate_parquet                                                       *)
(***************************************************************************)
RECURSIVE redact_columns(_, _, _)
redact_columns(df, fields, i) ==
  IF i > Len(fields) THEN df
  ELSE IF in_columns(df, fields[i])
    THEN redact_columns(set_column(df, fields[i]), fields, i + 1)
  ELSE redact_columns(df, fields, i + 1)

obfuscate_parquet(t, fields) ==
  IF ~t.valid THEN Raised("ArrowInvalid", "Parquet magic bytes not found")
  ELSE ReturnedTable(to_parquet(redact_columns(read_parquet(t), fields, 1)))

(***************************************************************************)
(* The inputs drawn.                                                       *)
(***************************************************************************)
A == <<"a">>
B == <<"b">>

\* pii_fields
PiiLists == {<<>>, <<A>>, <<A, B>>}

\* every CSV content of at most MaxLen characters over these characters
CsvAlphabet == {"a", "b", ",", "\n", "\""}
CsvContents == StringsUpTo(CsvAlphabet, MaxLen)

\* all sequences over S of length at most n
RECURSIVE SeqsUpTo(_, _)
SeqsUpTo(S, n) ==
  IF n = 0 THEN {<<>>}
  ELSE LET shorter == SeqsUpTo(S, n - 1)
       IN  shorter \cup {Append(q, x) : q \in {t \in shorter : Len(t) = n - 1}, x \in S}

\* JSON documents: lists of at most MaxRecords elements, each a record with
\* keys among "a", "b" in either order or something that is no record, and
\* the same elements at the top level
KeyOrders == {<<>>, <<A>>, <<B>>, <<A, B>>, <<B, A>>}
RecordValues == {JNum(<<"1">>), JStr(B)}
Records ==
  UNION {{JDict(ks, vs) : vs \in [1..Len(ks) -> RecordValues]} : ks \in KeyOrders}
    \cup {JDict(<<A>>, <<JDict(<<A>>, <<JNum(<<"1">>)>>)>>)}
NonRecords == {JNum(<<"1">>), JNull, JStr(A), JList(<<JStr(A)>>), JList(<<>>)}
JsonDocs ==
  {JList(q) : q \in SeqsUpTo(Records \cup NonRecords, MaxRecords)}
    \cup Records \cup NonRecords

\* texts that are no JSON, and one with a repeated key
OtherJsonTexts ==
  { <<>>, <<"[">>, <<"[", "1", ",", "]">>, <<"{", "\"", "a", "\"", "}">>,
    <<"[", "]", "1">>,
    <<"[", "{", "\"", "a", "\"", ":", "1", ",", "\"", "a", "\"", ":", "2", "}", "]">> }

JsonContents ==
  {json_dumps(v) : v \in JsonDocs}
    \cup {json_dumps_sep(v, <<",">>, <<":">>) : v \in JsonDocs}
    \cup OtherJsonTexts

\* Parquet tables: columns "a", "b" in either order, of type int64 or
\* string, with or without nulls, of at most MaxRecords rows, either of
\* them possibly the index of the pandas metadata
ColumnValues(type) == IF type = "int64" THEN {"1", "2", "null"} ELSE {"x", "null"}
Columns(name, n) ==
  {[name |-> name, type |-> ty, vals |-> vs, index |-> ix] :
     ty \in {"int64", "string"}, vs \in UNION {[1..n -> ColumnValues(u)] : u \in {"int64", "string"}},
     ix \in BOOLEAN}
WellTyped(c) == \A i \in 1..Len(c.vals) : c.vals[i] \in ColumnValues(c.type)
Tables ==
  UNION {
    {Table(<<>>)}
      \cup {Table(<<c>>) : c \in {x \in Columns(A, n) \cup Columns(B, n) : WellTyped(x)}}
      \cup {Table(<<c, d>>) : c \in {x \in Columns(A, n) : WellTyped(x)},
                              d \in {x \in Columns(B, n) : WellTyped(x)}}
      \cup {Table(<<d, c>>) : c \in {x \in Columns(A, n) : WellTyped(x)},
                              d \in {x \in Columns(B, n) : WellTyped(x)}}
    : n \in 0..MaxRecords}

\* the bytes of an S3 object or of a call's argument: text that decodes as
\* UTF-8, or a Parquet file, which does not
TextBody(text) == [utf8 |-> TRUE, text |-> text, table |-> NoTable]
TableBody(t) == [utf8 |-> FALSE, text |-> <<>>, table |-> t]
NoBody == TextBody(<<>>)

\* location strings: a prefix, a bucket, a separator and a key, each possibly
\* missing or malformed
Prefixes == { <<"s", "3", ":", "/", "/">>, <<"S", "3", ":", "/", "/">>,
              <<"s", "3", ":", "/">>, <<>>,
              <<"i", "n", "v", "a", "l", "i", "d", "_", "u", "r", "l">> }
Buckets == {<<>>, <<"b">>}
Separators == {<<>>, <<"/">>}
Keys == { <<>>,
          <<"f", ".", "c", "s", "v">>,
          <<"f", ".", "j", "s", "o", "n">>,
          <<"f", ".", "p", "a", "r", "q", "u", "e", "t">>,
          <<"d", "/", "f", ".", "t", "x", "t">>,
          <<"d", "/", "f", ".", "c", "s", "v">>,
          <<"F", ".", "C", "S", "V">>,
          <<"f", ".", "c", "s", "v", ".", "j", "s", "o", "n">>,
          <<"f", "c", "s", "v">>,
          <<".", "p", "a", "r", "q", "u", "e", "t">> }
Urls == {p \o b \o sp \o k : p \in Prefixes, b \in Buckets, sp \in Separators, k \in Keys}

\* the objects the S3 client may return
SampleCsv == <<"a", ",", "b", "\n", "1", ",", "2", "\n">>
SampleJson == json_dumps(JList(<<JDict(<<A, B>>, <<JNum(<<"1">>), JStr(B)>>)>>))
SampleTable ==
  Table(<< [name |-> A, type |-> "string", vals |-> <<"x", "x">>, index |-> FALSE],
           [name |-> B, type |-> "int64", vals |-> <<"1", "2">>, index |-> FALSE] >>)
Bodies == {TextBody(SampleCsv), TextBody(SampleJson), TextBody(<<>>),
           TableBody(SampleTable)}

(***************************************************************************)
(* A second input for a call: the first one with other values in the       *)
(* fields that pii_fields names, everything else as it was.                *)
(***************************************************************************)
\* the values put in the place of the targeted ones
CsvSecrets == << <<>>, <<"s">>, <<",", "\"">> >>
JsonSecrets == << JNull, JStr(<<"s">>), JList(<<JNum(<<"2">>)>>) >>
ColumnSecrets(type) ==
  IF type = "int64" THEN <<"1", "2", "null">> ELSE <<"x", "y", "null">>
Choices == 1..3

\* the rows of a CSV content with every cell under a targeted header name
\* replaced
csv_variant(rows, fields, v) ==
  [k \in 1..Len(rows) |->
     IF k = 1 THEN rows[k]
     ELSE [i \in 1..Len(rows[k]) |->
             IF i <= Len(rows[1]) /\ in_list(rows[1][i], fields)
               THEN v ELSE rows[k][i]]]

\* a CSV content of these rows
RECURSIVE write_rows(_)
write_rows(rows) ==
  IF rows = <<>> THEN <<>> ELSE writerow(Head(rows)) \o write_rows(Tail(rows))

\* a JSON document with every value under a targeted key of a record of the
\* top-level list replaced
json_variant(doc, fields, v) ==
  LET record(r) ==
        IF r.t = "dict"
          THEN JDict(r.keys, [i \in 1..Len(r.keys) |->
                                IF in_list(r.keys[i], fields) THEN v ELSE r.items[i]])
          ELSE r
  IN  IF doc.t = "list"
        THEN JList([i \in 1..Len(doc.items) |-> record(doc.items[i])])
        ELSE doc

\* a Parquet table with every value of a targeted column replaced
table_variant(t, fields, k) ==
  Table([i \in 1..Len(t.cols) |->
           IF in_list(t.cols[i].name, fields)
             THEN [t.cols[i] EXCEPT !.vals = [r \in 1..Len(t.cols[i].vals) |->
                                               ColumnSecrets(t.cols[i].type)[k]]]
             ELSE t.cols[i]])

\* the second input of a transform, given its first one
variant_body(name, body, fields, k) ==
  CASE name = "obfuscate_csv" ->
         TextBody(write_rows(csv_variant(csv_reader(body.text).rows, fields,
                                         CsvSecrets[k])))
    [] name = "obfuscate_json" ->
         IF json_loads(body.text).ok
           THEN TextBody(json_dumps(json_variant(json_loads(body.text).v, fields,
                                                 JsonSecrets[k])))
           ELSE body
    [] name = "obfuscate_parquet" ->
         IF body.table.valid THEN TableBody(table_variant(body.table, fields, k))
         ELSE body

\* the two inputs have the same structure and the same values in the fields
\* that are not targeted: the second reads as the first does, but for the
\* values replaced
same_but_targets(name, body, other, fields, k) ==
  CASE name = "obfuscate_csv" ->
         /\ ~csv_reader(body.text).err
         /\ ~csv_reader(other.text).err
         /\ csv_reader(other.text).rows
              = csv_variant(csv_reader(body.text).rows, fields, CsvSecrets[k])
    [] name = "obfuscate_json" ->
         /\ json_loads(body.text).ok
         /\ json_loads(other.text).ok
         /\ json_loads(other.text).v
              = json_variant(json_loads(body.text).v, fields, JsonSecrets[k])
    [] name = "obfuscate_parquet" -> body.table.valid

(***************************************************************************)
(* The state: the call in progress (fn, pc), its arguments and locals, the *)
(* get_object calls made, the transforms invoked, and its outcome; pass    *)
(* and prev track a transform applied again to its own output.             *)
(***************************************************************************)
NoResult == [status |-> "none", exc |-> "", msg |-> "", text |-> <<>>,
             table |-> NoTable]

Transforms == {"obfuscate_csv", "obfuscate_json", "obfuscate_parquet"}
EntryPoints == {"obfuscate_file", "obfuscate_csv_from_json"}

Init ==
  /\ pc = "idle"
  /\ fn = "none"
  /\ s3_url = <<>>
  /\ pii_fields = <<>>
  /\ bucket = <<>>
  /\ key = <<>>
  /\ data = NoBody
  /\ fetches = <<>>
  /\ invoked = <<>>
  /\ result = NoResult
  /\ pass = 0
  /\ prev = NoResult

\* file_bytes.decode("utf-8") and the transform: bytes that are no UTF-8
\* raise UnicodeDecodeError
decode_then(body, out) ==
  IF body.utf8 THEN out ELSE Raised("UnicodeDecodeError", "invalid start byte")

\* the transform named, on the bytes given
apply_transform(name, body, fields) ==
  CASE name = "obfuscate_csv" -> obfuscate_csv(body.text, fields)
    [] name = "obfuscate_json" -> obfuscate_json(body.text, fields)
    [] name = "obfuscate_parquet" -> obfuscate_parquet(body.table, fields)

\* the bytes a call returned
OutBody(r) == IF r.table.valid THEN TableBody(r.table) ELSE TextBody(r.text)

\* obfuscate_csv(data, pii_fields)
Call_obfuscate_csv ==
  /\ pc = "idle"
  /\ \E text \in CsvContents, fields \in PiiLists :
       /\ data' = TextBody(text)
       /\ pii_fields' = fields
       /\ result' = obfuscate_csv(text, fields)
  /\ fn' = "obfuscate_csv"
  /\ invoked' = <<"obfuscate_csv">>
  /\ pass' = 1
  /\ pc' = "done"
  /\ UNCHANGED <<s3_url, bucket, key, fetches, prev>>

\* obfuscate_json(data, pii_fields)
Call_obfuscate_json ==
  /\ pc = "idle"
  /\ \E text \in JsonContents, fields \in PiiLists :
       /\ data' = TextBody(text)
       /\ pii_fields' = fields
       /\ result' = obfuscate_json(text, fields)
  /\ fn' = "obfuscate_json"
  /\ invoked' = <<"obfuscate_json">>
  /\ pass' = 1
  /\ pc' = "done"
  /\ UNCHANGED <<s3_url, bucket, key, fetches, prev>>

\* obfuscate_parquet(file_bytes, pii_fields)
Call_obfuscate_parquet ==
  /\ pc = "idle"
  /\ \E t \in Tables, fields \in PiiLists :
       /\ data' = TableBody(t)
       /\ pii_fields' = fields
       /\ result' = obfuscate_parquet(t, fields)
  /\ fn' = "obfuscate_parquet"
  /\ invoked' = <<"obfuscate_parquet">>
  /\ pass' = 1
  /\ pc' = "done"
  /\ UNCHANGED <<s3_url, bucket, key, fetches, prev>>

\* the transform called again on the bytes it returned, with the same
\* pii_fields
Reapply ==
  /\ pc = "done"
  /\ fn \in Transforms
  /\ pass = 1
  /\ result.status = "ok"
  /\ prev' = result
  /\ data' = OutBody(result)
  /\ invoked' = Append(invoked, fn)
  /\ result' = apply_transform(fn, OutBody(result), pii_fields)
  /\ pass' = 2
  /\ UNCHANGED <<pc, fn, s3_url, pii_fields, bucket, key, fetches>>

\* the transform called a second time, on an input that differs from the
\* first in the values of the targeted fields only, with the same pii_fields
Vary ==
  /\ pc = "done"
  /\ fn \in Transforms
  /\ pass = 1
  /\ \E k \in Choices :
       LET other == variant_body(fn, data, pii_fields, k)
       IN  /\ other # data
           /\ same_but_targets(fn, data, other, pii_fields, k)
           /\ data' = other
           /\ result' = apply_transform(fn, other, pii_fields)
  /\ prev' = result
  /\ invoked' = Append(invoked, fn)
  /\ pass' = 3
  /\ UNCHANGED <<pc, fn, s3_url, pii_fields, bucket, key, fetches>>

\* obfuscate_file(json_input_str) and obfuscate_csv_from_json(json_input_str):
\* the request is parsed into s3_url and pii_fields
Start ==
  /\ pc = "idle"
  /\ \E name \in EntryPoints, url \in Urls, fields \in PiiLists :
       /\ fn' = name
       /\ s3_url' = url
       /\ pii_fields' = fields
  /\ pass' = 1
  /\ pc' = "validate"
  /\ UNCHANGED <<bucket, key, data, fetches, invoked, result, prev>>

BadSchemeMsg == "Invalid S3 URL: Must start with 's3://'"
BadFormMsg == "Invalid S3 URL: Must be in the form s3://bucket/key"

s3_prefix == <<"s", "3", ":", "/", "/">>

\* the validation of the S3 URL: the error raised, or the parts
resolve_location(url) ==
  IF ~startswith(url, s3_prefix)
    THEN [ok |-> FALSE, msg |-> BadSchemeMsg, parts |-> <<>>]
  ELSE LET s3_parts == split_once(slice_from(url, 5), "/")
       IN  IF Len(s3_parts) # 2
             THEN [ok |-> FALSE, msg |-> BadFormMsg, parts |-> <<>>]
             ELSE [ok |-> TRUE, msg |-> "", parts |-> s3_parts]

Validate ==
  /\ pc = "validate"
  /\ LET r == resolve_location(s3_url)
     IN  IF r.ok
           THEN /\ bucket' = r.parts[1]
                /\ key' = r.parts[2]
                /\ pc' = "fetch"
                /\ UNCHANGED result
           ELSE /\ result' = Raised("ValueError", r.msg)
                /\ pc' = "done"
                /\ UNCHANGED <<bucket, key>>
  /\ UNCHANGED <<fn, s3_url, pii_fields, data, fetches, invoked, pass, prev>>

\* boto3.client("s3").get_object(Bucket=bucket, Key=key) and Body.read():
\* the object's bytes
FetchFound ==
  /\ pc = "fetch"
  /\ fetches' = Append(fetches, <<bucket, key>>)
  /\ \E body \in Bodies : data' = body
  /\ pc' = "dispatch"
  /\ UNCHANGED <<fn, s3_url, pii_fields, bucket, key, invoked, result, pass, prev>>

\* get_object raises, and the exception propagates
FetchFails ==
  /\ pc = "fetch"
  /\ fetches' = Append(fetches, <<bucket, key>>)
  /\ result' = Raised("ClientError", "get_object failed")
  /\ pc' = "done"
  /\ UNCHANGED <<fn, s3_url, pii_fields, bucket, key, data, invoked, pass, prev>>

UnsupportedMsg == "Unsupported file type. Only CSV, JSON, and Parquet are supported."

\* mutant: the extension is looked for anywhere in the key
select_transform_anywhere(k) ==
  IF is_substring(<<".", "c", "s", "v">>, k) THEN "obfuscate_csv"
  ELSE IF is_substring(<<".", "j", "s", "o", "n">>, k) THEN "obfuscate_json"
  ELSE IF is_substring(<<".", "p", "a", "r", "q", "u", "e", "t">>, k) THEN "obfuscate_parquet"
  ELSE ""

\* the transform obfuscate_file picks for a key: "" for none
select_transform(k) ==
  IF endswith(k, <<".", "c", "s", "v">>) THEN "obfuscate_csv"
  ELSE IF endswith(k, <<".", "j", "s", "o", "n">>) THEN "obfuscate_json"
  ELSE IF endswith(k, <<".", "p", "a", "r", "q", "u", "e", "t">>) THEN "obfuscate_parquet"
  ELSE ""

\* obfuscate_file: the transform by the key's extension
Dispatch ==
  /\ pc = "dispatch"
  /\ fn = "obfuscate_file"
  /\ LET name == select_transform(key)
     IN  IF name = ""
           THEN /\ result' = Raised("ValueError", UnsupportedMsg)
                /\ UNCHANGED invoked
         ELSE IF name = "obfuscate_parquet"
           THEN /\ result' = obfuscate_parquet(data.table, pii_fields)
                /\ invoked' = Append(invoked, name)
         ELSE /\ result' = decode_then(data, apply_transform(name, data, pii_fields))
              /\ invoked' = IF data.utf8 THEN Append(invoked, name) ELSE invoked
  /\ pc' = "done"
  /\ UNCHANGED <<fn, s3_url, pii_fields, bucket, key, data, fetches, pass, prev>>

\* obfuscate_csv_from_json: the body is decoded and goes through the CSV
\* reader and writer, whatever the key
TransformCsv ==
  /\ pc = "dispatch"
  /\ fn = "obfuscate_csv_from_json"
  /\ result' = decode_then(data, obfuscate_csv(data.text, pii_fields))
  /\ invoked' = IF data.utf8 THEN Append(invoked, "obfuscate_csv") ELSE invoked
  /\ pc' = "done"
  /\ UNCHANGED <<fn, s3_url, pii_fields, bucket, key, data, fetches, pass, prev>>

\* the call is over; the next one starts from nothing
Return ==
  /\ pc = "done"
  /\ pc' = "idle"
  /\ fn' = "none"
  /\ s3_url' = <<>>
  /\ pii_fields' = <<>>
  /\ bucket' = <<>>
  /\ key' = <<>>
  /\ data' = NoBody
  /\ fetches' = <<>>
  /\ invoked' = <<>>
  /\ result' = NoResult
  /\ pass' = 0
  /\ prev' = NoResult

Next ==
  \/ Call_obfuscate_csv
  \/ Call_obfuscate_json
  \/ Call_obfuscate_parquet
  \/ Reapply
  \/ Vary
  \/ Start
  \/ Validate
  \/ FetchFound
  \/ FetchFails
  \/ Dispatch
  \/ TransformCsv
  \/ Return

Spec == Init /\ [][Next]_vars

(***************************************************************************)
(* What the claims speak of.                                               *)
(***************************************************************************)
\* a transform has been called once on drawn input and has ended
Called(name) == pc = "done" /\ fn = name /\ pass = 1

\* the rows csv.reader reads from a text
RowsOf(text) == csv_reader(text).rows

\* the content has a header row of one or more distinct, non-empty names
HasHeader(text) ==
  /\ RowsOf(text) # <<>>
  /\ LET header == RowsOf(text)[1]
     IN  /\ header # <<>>
         /\ \A i \in 1..Len(header) : header[i] # <<>>
         /\ \A i, j \in 1..Len(header) : header[i] = header[j] => i = j

\* the data rows: the rows after the header that are not blank lines
DataRows(text) == SelectSeq(Tail(RowsOf(text)), LAMBDA r : r # <<>>)

\* the value of column i in a row; a column the row leaves out is empty
Cell(row, i) == IF i <= Len(row) THEN row[i] ELSE <<>>

\* the content parses as a list of records
IsRecordList(v) == v.t = "list" /\ \A i \in 1..Len(v.items) : v.items[i].t = "dict"
ParsesAsRecords(text) == json_loads(text).ok /\ IsRecordList(json_loads(text).v)

\* the location has the form s3://bucket/key with a bucket and a key
WellFormedLocation(url) ==
  /\ startswith(url, <<"s", "3", ":", "/", "/">>)
  /\ LET rest == slice_from(url, 5)
     IN  \E i \in 1..Len(rest) :
           /\ rest[i] = "/"
           /\ \A j \in 1..(i - 1) : rest[j] # "/"
           /\ i > 1
           /\ i < Len(rest)

InvalidS3UrlMsgs == {BadSchemeMsg, BadFormMsg}

\* C1: obfuscate_csv, on every content with a header row (here: of distinct,
\* non-empty names), whatever its data rows, returns rows that
\* hold "***" in every column whose header name is in pii_fields and the
\* input row's value in every other column, under the input's header.
C1_EveryRowRedacted ==
  (Called("obfuscate_csv") /\ HasHeader(data.text)) =>
    /\ result.status = "ok"
    /\ HasHeader(result.text)
    /\ LET header == RowsOf(data.text)[1]
           rows == DataRows(data.text)
           out == Tail(RowsOf(result.text))
       IN  /\ RowsOf(result.text)[1] = header
           /\ Len(out) = Len(rows)
           /\ \A k \in 1..Len(rows) :
                /\ Len(out[k]) = Len(header)
                /\ \A i \in 1..Len(header) :
                     out[k][i] = IF in_list(header[i], pii_fields) THEN Marker
                                 ELSE Cell(rows[k], i)

\* C2: obfuscate_json, on every list of records, returns the same number of
\* records in the same order, each with its own keys in their order, the
\* value "***" under the keys that are in pii_fields and the input's value
\* under every other key; a key the record lacks is not added.
C2_PerRecordRedaction ==
  (Called("obfuscate_json") /\ ParsesAsRecords(data.text)) =>
    /\ result.status = "ok"
    /\ json_loads(result.text).ok
    /\ LET recs == json_loads(data.text).v.items
           out == json_loads(result.text).v
       IN  /\ out.t = "list"
           /\ Len(out.items) = Len(recs)
           /\ \A i \in 1..Len(recs) :
                /\ out.items[i].t = "dict"
                /\ out.items[i].keys = recs[i].keys
                /\ \A j \in 1..Len(recs[i].keys) :
                     out.items[i].items[j] =
                       IF in_list(recs[i].keys[j], pii_fields) THEN JStr(Marker)
                       ELSE recs[i].items[j]

\* C2 witness: pii_fields names "a"; the first record lacks "a" and comes
\* back with its one key "b", the second has "a" and comes back redacted.
C2_Witness ==
  /\ Called("obfuscate_json")
  /\ pii_fields = <<A>>
  /\ ParsesAsRecords(data.text)
  /\ LET recs == json_loads(data.text).v.items
     IN  /\ Len(recs) = 2
         /\ recs[1].keys = <<B>>
         /\ recs[2].keys = <<A, B>>
         /\ recs[2].items[1] = JNum(<<"1">>)
  /\ result.status = "ok"
  /\ json_loads(result.text).v.items[1].keys = <<B>>
  /\ json_loads(result.text).v.items[2].items[1] = JStr(Marker)

\* a table of at least one row whose columns are all data columns (none is
\* the index of the pandas metadata)
PlainTable(t) ==
  /\ t.valid
  /\ \A i \in 1..Len(t.cols) : ~t.cols[i].index /\ Len(t.cols[i].vals) >= 1

\* C3: obfuscate_parquet, on every table (here: of at least one row and
\* without index columns), returns the same columns in the same order with
\* the same number of rows, "***" in every row of a column named in
\* pii_fields, and the type and the values of every other column.
C3_ColumnsRedacted ==
  (Called("obfuscate_parquet") /\ PlainTable(data.table)) =>
    /\ result.status = "ok"
    /\ LET cols == data.table.cols
           out == result.table.cols
       IN  /\ Len(out) = Len(cols)
           /\ \A i \in 1..Len(cols) :
                /\ out[i].name = cols[i].name
                /\ Len(out[i].vals) = Len(cols[i].vals)
                /\ IF in_list(cols[i].name, pii_fields)
                     THEN \A r \in 1..Len(out[i].vals) : out[i].vals[r] = "***"
                     ELSE out[i].type = cols[i].type /\ out[i].vals = cols[i].vals

\* C4: once the location has been validated, the call has gone on exactly
\* when the location is s3://bucket/key with a non-empty bucket and key, and
\* has otherwise raised ValueError with an "Invalid S3 URL" message.
C4_OnlyWellFormedAccepted ==
  (fn \in EntryPoints /\ pc \in {"fetch", "dispatch", "done"}) =>
    IF WellFormedLocation(s3_url)
      THEN result.msg \notin InvalidS3UrlMsgs
      ELSE /\ result.status = "error"
           /\ result.exc = "ValueError"
           /\ result.msg \in InvalidS3UrlMsgs

\* C5: obfuscate_file, once the object is fetched, invokes the CSV transform
\* and no other for a key ending in ".csv", the JSON transform and no other
\* for ".json", the Parquet transform and no other for ".parquet", and for
\* any other key invokes none and raises the unsupported-file-type error.
C5_DispatchBySuffix ==
  (fn = "obfuscate_file" /\ pc = "done" /\ fetches # <<>> /\ result.exc # "ClientError") =>
    LET only(name) == /\ \A i \in 1..Len(invoked) : invoked[i] = name
                      /\ Len(invoked) <= 1
                      /\ (data.utf8 \/ name = "obfuscate_parquet") => invoked = <<name>>
                      /\ result.msg # UnsupportedMsg
    IN  CASE endswith(key, <<".", "c", "s", "v">>) -> only("obfuscate_csv")
          [] endswith(key, <<".", "j", "s", "o", "n">>) -> only("obfuscate_json")
          [] endswith(key, <<".", "p", "a", "r", "q", "u", "e", "t">>) ->
               only("obfuscate_parquet")
          [] OTHER -> /\ invoked = <<>>
                      /\ result.status = "error"
                      /\ result.exc = "ValueError"
                      /\ result.msg = UnsupportedMsg

\* C5 witness: the key "F.CSV" was fetched, no transform was invoked and the
\* call raised the unsupported-file-type error.
C5_Witness ==
  /\ fn = "obfuscate_file"
  /\ pc = "done"
  /\ key = <<"F", ".", "C", "S", "V">>
  /\ fetches = <<<<bucket, key>>>>
  /\ invoked = <<>>
  /\ result.msg = UnsupportedMsg

\* C6: get_object is called only for a location of the form s3://bucket/key
\* with a non-empty bucket and key.
C6_NoFetchForMalformed ==
  (fn = "obfuscate_file" /\ fetches # <<>>) => WellFormedLocation(s3_url)

\* no name of pii_fields is a field of the input
NoTargetInCsv(text) ==
  \A i \in 1..Len(pii_fields) : ~in_list(pii_fields[i], RowsOf(text)[1])
NoTargetInJson(text) ==
  \A r \in 1..Len(json_loads(text).v.items), i \in 1..Len(pii_fields) :
    ~in_list(pii_fields[i], json_loads(text).v.items[r].keys)
NoTargetInTable(t) ==
  \A c \in 1..Len(t.cols), i \in 1..Len(pii_fields) : t.cols[c].name # pii_fields[i]

\* what csv.DictReader reads from a text: the field names, and for each row
\* its dict and whether it holds values beyond the field names
DictRows(text) ==
  LET header == RowsOf(text)[1]
      rows == DataRows(text)
  IN  [fieldnames |-> header,
       dicts |-> [k \in 1..Len(rows) |-> row_dict(header, rows[k])],
       rest |-> [k \in 1..Len(rows) |-> has_restkey(header, rows[k])]]

\* C7: when pii_fields is empty or names no field of the input, each
\* transform succeeds and its output parses to what the input parses to.
C7_NoTargetNoChange ==
  /\ (Called("obfuscate_csv") /\ HasHeader(data.text) /\ NoTargetInCsv(data.text)) =>
       /\ result.status = "ok"
       /\ RowsOf(result.text) # <<>>
       /\ DictRows(result.text) = DictRows(data.text)
  /\ (Called("obfuscate_json") /\ ParsesAsRecords(data.text) /\ NoTargetInJson(data.text)) =>
       /\ result.status = "ok"
       /\ json_loads(result.text).ok
       /\ json_loads(result.text).v = json_loads(data.text).v
  /\ (Called("obfuscate_parquet") /\ PlainTable(data.table) /\ NoTargetInTable(data.table)) =>
       /\ result.status = "ok"
       /\ result.table = data.table

\* C8: a transform applied to its own output with the same pii_fields
\* succeeds and returns the bytes the first pass returned.
C8_Idempotent ==
  (pc = "done" /\ fn \in Transforms /\ pass = 2) =>
    /\ result.status = "ok"
    /\ result.text = prev.text
    /\ result.table = prev.table

\* C8 witness: obfuscate_csv has redacted column "a" of a data row, and has
\* run again on that output.
C8_Witness ==
  /\ pc = "done"
  /\ fn = "obfuscate_csv"
  /\ pass = 2
  /\ pii_fields = <<A>>
  /\ prev.status = "ok"
  /\ is_substring(Marker, prev.text)
  /\ data.text = prev.text
  /\ invoked = <<"obfuscate_csv", "obfuscate_csv">>

\* C9: obfuscate_json raises, and returns no bytes, for every content that
\* does not parse as a list of records, whatever pii_fields.
C9_NonRecordsRejected ==
  (Called("obfuscate_json") /\ ~ParsesAsRecords(data.text)) =>
    /\ result.status = "error"
    /\ result.text = <<>>

\* C10: the CSV transform, in obfuscate_csv and in obfuscate_csv_from_json,
\* raises "CSV file has no header row." exactly when the content is empty,
\* and then returns no bytes.
C10_NoHeaderIffEmpty ==
  (pc = "done" /\ fn \in {"obfuscate_csv", "obfuscate_csv_from_json"}
     /\ invoked # <<>> /\ invoked[Len(invoked)] = "obfuscate_csv") =>
    /\ (result.msg = NoHeaderMsg) <=> (data.text = <<>>)
    /\ (data.text = <<>>) =>
         /\ result.status = "error"
         /\ result.exc = "ValueError"
         /\ result.text = <<>>

\* C10 witness: obfuscate_csv_from_json fetched an empty object and raised
\* the no-header error.
C10_Witness ==
  /\ pc = "done"
  /\ fn = "obfuscate_csv_from_json"
  /\ fetches # <<>>
  /\ invoked = <<"obfuscate_csv">>
  /\ data.text = <<>>
  /\ result.status = "error"
  /\ result.msg = NoHeaderMsg

\* the content is a header row (a first line that is not blank) and no data
\* row after it, and the reader reads it without error
HeaderOnly(text) ==
  /\ RowsOf(text) # <<>>
  /\ RowsOf(text)[1] # <<>>
  /\ DataRows(text) = <<>>
  /\ ~csv_reader(text).err

\* C11: the CSV transform, in obfuscate_csv and in obfuscate_csv_from_json,
\* on a content of a header row and no data rows, whatever pii_fields,
\* returns a text that reads back as exactly the header row: the same field
\* names in the same order, and no data row.
C11_HeaderOnly ==
  (pc = "done" /\ fn \in {"obfuscate_csv", "obfuscate_csv_from_json"}
     /\ pass = 1 /\ invoked = <<"obfuscate_csv">> /\ HeaderOnly(data.text)) =>
    /\ result.status = "ok"
    /\ ~csv_reader(result.text).err
    /\ RowsOf(result.text) = <<RowsOf(data.text)[1]>>

\* C11 witness: obfuscate_csv was given a header that names "a" and an
\* empty name, no data row, and pii_fields naming "a", and returned.
C11_Witness ==
  /\ Called("obfuscate_csv")
  /\ HeaderOnly(data.text)
  /\ RowsOf(data.text)[1] = <<A, <<>>>>
  /\ pii_fields = <<A>>
  /\ result.status = "ok"
  /\ result.text = <<"a", ",", "\r", "\n">>

\* C12: for each transform and any pii_fields, an input and a second input
\* of the same structure that differs from it only in the values of the
\* targeted fields (the cells under a targeted header name, the values under a
\* targeted key of a record, the values of a targeted column) have the same
\* outcome: the same bytes returned, or the same exception raised.
C12_TargetsDoNotShow ==
  (pc = "done" /\ fn \in Transforms /\ pass = 3) => result = prev

\* C12 witness: obfuscate_csv returned the same redacted text for two
\* contents, the second holding another value in a cell of column "a".
C12_Witness ==
  /\ pc = "done"
  /\ fn = "obfuscate_csv"
  /\ pass = 3
  /\ pii_fields = <<A>>
  /\ RowsOf(data.text) = <<<<A, B>>, <<<<"s">>, <<>>>>>>
  /\ prev.status = "ok"
  /\ result.text = prev.text
  /\ is_substring(Marker, result.text)
  /\ ~is_substring(<<"s">>, result.text)

====
